---- MODULE Spec2Model ----
(***************************************************************************)
(* Model of notificationSystem.cpp: decorator-composed notification       *)
(* content, the NotificationObservable publisher with its observer        *)
(* registry, the Logger and NotificationEngine observers, the delivery    *)
(* strategies, and the NotificationService singleton.                      *)
(*                                                                         *)
(* Strings are sequences of tokens; concatenation is \o.  Heap objects    *)
(* (INotification instances) are numbered in allocation order.  A call    *)
(* whose behaviour is undefined in C++ (null or dangling dereference,     *)
(* double delete) either crashes the process or carries on with stale or  *)
(* garbage data; both outcomes are next states.                            *)
(***************************************************************************)
EXTENDS Naturals, Sequences, FiniteSets, TLC

\* ------------------------------------------------------------ bounds
MaxObjs == 3        \* INotification objects ever allocated
MaxObservers == 3   \* length of the observers vector
MaxStrategies == 3  \* length of an engine's notificationStrategies vector
MaxSends == 3       \* length of NotificationService::notifications

\* ------------------------------------------------------------ universes
NULL == 0

\* main's literals
MainMessage == << "Your internship confirmation has been approved!" >>
MainSignature == "Microsoft Dublin HR Team"

Messages == { << "Your internship confirmation has been approved!" >>, << "Hello" >> }
Signatures == { "Microsoft Dublin HR Team", "Team" }

Loggers == { "logger", "logger2" }
Engines == { "engine" }
ObsIds == Loggers \cup Engines

\* EmailStrategy, SMSStrategy, PopUpStrategy
SourceChannels == { "Email", "SMS", "Popup" }
\* "Faulty" is one more implementor of INotificationStrategy, whose
\* sendNotification throws
Throws(ch) == ch = "Faulty"

GARBAGE == << "?garbage" >>

VARIABLES
  heap,           \* allocated INotification objects, by id 1..Len(heap)
  recipe,         \* per object: the base text and the decorations applied, in order
  observers,      \* NotificationObservable::observers
  current,        \* NotificationObservable::currentNotification
  notifications,  \* NotificationService::notifications
  obs,            \* per observer object: "none", "alive" or "dead"
  strategies,     \* per engine: NotificationEngine::notificationStrategies
  service,        \* the singleton: "up" or "destroyed"
  events,         \* the update and deliver calls the last operation made, in order
  call,           \* the last operation called and its argument
  ret,            \* how it ended: "returned", "threw" or "crashed"
  value,          \* the string it returned (<< >> for void)
  ub,             \* whether it executed undefined behaviour
  pre,            \* the observers vector as it was when the last operation began
  subscribed      \* per observer: addObserver calls since its last removeObserver

vars == << heap, recipe, observers, current, notifications, obs, strategies,
           service, events, call, ret, value, ub, pre, subscribed >>

Range(s) == { s[i] : i \in 1..Len(s) }

\* ------------------------------------------------------------ content
Objs == 1..Len(heap)

TimestampPrefix == << "[2025-10-26 10:45:00] " >>

SimpleGetContent(o) == heap[o].text

RECURSIVE GetContent(_)

TimestampGetContent(o) == TimestampPrefix \o GetContent(heap[o].inner)

\* faulty variant: the signature block put in front of the inner content
SignaturePrepended(o) ==
  << "\n-- ", heap[o].sig, "\n\n" >> \o GetContent(heap[o].inner)

SignatureGetContent(o) ==
  GetContent(heap[o].inner) \o << "\n-- ", heap[o].sig, "\n\n" >>

GetContent(o) ==
  CASE heap[o].kind = "simple"    -> SimpleGetContent(o)
    [] heap[o].kind = "timestamp" -> TimestampGetContent(o)
    [] heap[o].kind = "signature" -> SignatureGetContent(o)

\* the objects a getContent call on o dereferences: o and everything it wraps
RECURSIVE Chain(_, _)
Chain(h, o) ==
  IF o = NULL THEN {}
  ELSE IF h[o].kind = "simple" THEN {o}
  ELSE {o} \cup Chain(h, h[o].inner)

Live(h, o) == o # NULL /\ \A x \in Chain(h, o) : h[x].alive

Wrapped(o) == \E p \in Objs : heap[p].kind # "simple" /\ heap[p].inner = o

\* an object the caller still owns: live, top of its chain, never handed over
Fresh(o) == Live(heap, o) /\ ~Wrapped(o) /\ o \notin Range(notifications)

\* delete o: ~INotificationDecorator deletes the wrapped object in turn
RECURSIVE Delete(_, _)
Delete(h, o) ==
  IF o = NULL THEN h
  ELSE LET h1 == [h EXCEPT ![o].alive = FALSE,
                           ![o].dels = IF @ < 2 THEN @ + 1 ELSE @]
       IN IF h[o].kind = "simple" THEN h1 ELSE Delete(h1, h[o].inner)

\* ------------------------------------------------------------ publisher
Running == service = "up" /\ ret # "crashed"

\* faulty variant: a registration that ignores an observer already registered
PushBackUnique(v, o) == IF o \in Range(v) THEN v ELSE Append(v, o)

\* observers.push_back(obs)
PushBack(v, o) == Append(v, o)

\* std::remove(begin, end, o): keeps, in order, the elements that are not o at
\* the front of the vector and returns the new logical end
RECURSIVE StdRemove(_, _, _, _)
StdRemove(v, i, k, o) ==
  IF i > Len(v) THEN << v, k >>
  ELSE IF v[i] = o THEN StdRemove(v, i + 1, k, o)
  ELSE StdRemove([v EXCEPT ![k] = v[i]], i + 1, k + 1, o)

\* faulty variant: observers.erase(find(...)), which drops one occurrence only
EraseFirst(v, o) ==
  IF o \notin Range(v) THEN v
  ELSE LET i == CHOOSE k \in 1..Len(v) : v[k] = o /\ \A j \in 1..(k - 1) : v[j] # o
       IN SubSeq(v, 1, i - 1) \o SubSeq(v, i + 1, Len(v))

\* observers.erase(remove(...), observers.end())
EraseRemove(v, o) ==
  LET r == StdRemove(v, 1, 1, o) IN SubSeq(r[1], 1, r[2] - 1)

\* getNotificationContent(): currentNotification->getContent().  With a null
\* or deleted currentNotification the read is undefined: it yields the stale
\* bytes or garbage (or crashes, which the caller of this operator decides).
ReadContent(h, cur, garbage) ==
  IF cur = NULL \/ garbage THEN GARBAGE ELSE GetContent(cur)

\* faulty variant: the strategies visited from the last one to the first
RECURSIVE SendAllBackwards(_, _, _)
SendAllBackwards(strats, i, c) ==
  IF i > Len(strats) THEN << >>
  ELSE LET ch == strats[Len(strats) + 1 - i]
       IN << << "deliver", ch, c >> >>
            \o (IF Throws(ch) THEN << >> ELSE SendAllBackwards(strats, i + 1, c))

\* the loop of NotificationEngine::update from strategy i on; a throwing
\* strategy ends it
RECURSIVE SendAll(_, _, _)
SendAll(strats, i, c) ==
  IF i > Len(strats) THEN << >>
  ELSE << << "deliver", strats[i], c >> >>
         \o (IF Throws(strats[i]) THEN << >> ELSE SendAll(strats, i + 1, c))

LoggerUpdate(o, c) == << << "update", o, c >> >>

EngineUpdate(o, c) == << << "update", o, c >> >> \o SendAll(strategies[o], 1, c)

Update(o, c) == IF o \in Loggers THEN LoggerUpdate(o, c) ELSE EngineUpdate(o, c)

UpdateThrows(o) ==
  o \in Engines /\ \E i \in 1..Len(strategies[o]) : Throws(strategies[o][i])

\* observers[i]->update() is undefined when observers[i] has been deleted or
\* when the content it reads is null or deleted
UBAt(v, i, h, cur) == obs[v[i]] # "alive" \/ ~Live(h, cur)

RoundUB(v, h, cur) == \E i \in 1..Len(v) : UBAt(v, i, h, cur)

\* where an undefined step may crash the process (0: nowhere)
CrashPoints(v, h, cur) == {0} \cup { i \in 1..Len(v) : UBAt(v, i, h, cur) }

GarbageChoices(h, cur) == IF Live(h, cur) THEN {FALSE} ELSE BOOLEAN

\* faulty variant: a loop that stops one observer early
RECURSIVE NotifyAllButLast(_, _, _, _, _, _)
NotifyAllButLast(v, i, h, cur, crashAt, garbage) ==
  IF i >= Len(v) THEN [events |-> << >>, ret |-> "returned"]
  ELSE IF i = crashAt THEN [events |-> << >>, ret |-> "crashed"]
  ELSE LET ev == Update(v[i], ReadContent(h, cur, garbage))
       IN IF UpdateThrows(v[i]) THEN [events |-> ev, ret |-> "threw"]
          ELSE LET rest == NotifyAllButLast(v, i + 1, h, cur, crashAt, garbage)
               IN [events |-> ev \o rest.events, ret |-> rest.ret]

\* notifyObservers(): for (i = 0; i < observers.size(); i++) observers[i]->update()
RECURSIVE NotifyFrom(_, _, _, _, _, _)
NotifyFrom(v, i, h, cur, crashAt, garbage) ==
  IF i > Len(v) THEN [events |-> << >>, ret |-> "returned"]
  ELSE IF i = crashAt THEN [events |-> << >>, ret |-> "crashed"]
  ELSE LET ev == Update(v[i], ReadContent(h, cur, garbage))
       IN IF UpdateThrows(v[i]) THEN [events |-> ev, ret |-> "threw"]
          ELSE LET rest == NotifyFrom(v, i + 1, h, cur, crashAt, garbage)
               IN [events |-> ev \o rest.events, ret |-> rest.ret]

\* faulty variant: notifyObservers() before currentNotification is assigned
NotifyThenAssign(h, n, crashAt, garbage) ==
  NotifyFrom(observers, 1, h, current, crashAt, garbage)

\* the tail of setNotification: currentNotification = notification;
\* notifyObservers();  h is the heap after the old content was deleted
AssignAndNotify(h, n, crashAt, garbage) ==
  NotifyFrom(observers, 1, h, n, crashAt, garbage)

\* ------------------------------------------------------------ operations
Init ==
  /\ heap = << >>
  /\ recipe = << >>
  /\ observers = << >>
  /\ current = NULL
  /\ notifications = << >>
  /\ obs = [o \in ObsIds |-> "none"]
  /\ strategies = [e \in Engines |-> << >>]
  /\ service = "up"
  /\ events = << >>
  /\ call = << "getInstance", NULL >>
  /\ ret = "returned"
  /\ value = << >>
  /\ ub = FALSE
  /\ pre = << >>
  /\ subscribed = [o \in ObsIds |-> 0]

Returned(name, arg) ==
  /\ call' = << name, arg >>
  /\ ret' = "returned"
  /\ value' = << >>
  /\ ub' = FALSE
  /\ events' = << >>
  /\ pre' = observers

NewSimple(msg) ==
  /\ Running /\ Len(heap) < MaxObjs
  /\ heap' = Append(heap, [kind |-> "simple", text |-> msg, sig |-> "",
                           inner |-> NULL, alive |-> TRUE, dels |-> 0])
  /\ recipe' = Append(recipe, [base |-> msg, decos |-> << >>])
  /\ Returned("SimpleNotification", Len(heap) + 1)
  /\ UNCHANGED << observers, current, notifications, obs, strategies, service, subscribed >>

NewTimestamp(n) ==
  /\ Running /\ Len(heap) < MaxObjs /\ n \in Objs
  /\ heap' = Append(heap, [kind |-> "timestamp", text |-> << >>, sig |-> "",
                           inner |-> n, alive |-> TRUE, dels |-> 0])
  /\ recipe' = Append(recipe, [recipe[n] EXCEPT !.decos = Append(@, << "timestamp" >>)])
  /\ Returned("TimestampDecorator", Len(heap) + 1)
  /\ UNCHANGED << observers, current, notifications, obs, strategies, service, subscribed >>

NewSignature(n, sig) ==
  /\ Running /\ Len(heap) < MaxObjs /\ n \in Objs
  /\ heap' = Append(heap, [kind |-> "signature", text |-> << >>, sig |-> sig,
                           inner |-> n, alive |-> TRUE, dels |-> 0])
  /\ recipe' = Append(recipe, [recipe[n] EXCEPT !.decos = Append(@, << "signature", sig >>)])
  /\ Returned("SignatureDecorator", Len(heap) + 1)
  /\ UNCHANGED << observers, current, notifications, obs, strategies, service, subscribed >>

\* notification->getContent() called by the owner of n
CallGetContent(n) ==
  /\ Running /\ n \in Objs
  /\ \E crash \in (IF Live(heap, n) THEN {FALSE} ELSE BOOLEAN),
        garbage \in GarbageChoices(heap, n) :
       /\ call' = << "getContent", n >>
       /\ ret' = IF crash THEN "crashed" ELSE "returned"
       /\ value' = IF crash THEN << >> ELSE ReadContent(heap, n, garbage)
       /\ ub' = ~Live(heap, n)
  /\ events' = << >>
  /\ pre' = observers
  /\ UNCHANGED << heap, recipe, observers, current, notifications, obs, strategies,
                  service, subscribed >>

AddObserver(o) ==
  /\ Running /\ obs[o] # "none" /\ Len(observers) < MaxObservers
  /\ observers' = PushBack(observers, o)
  /\ subscribed' = [subscribed EXCEPT ![o] = @ + 1]
  /\ Returned("addObserver", o)
  /\ UNCHANGED << heap, recipe, current, notifications, obs, strategies, service >>

RemoveObserver(o) ==
  /\ Running /\ obs[o] # "none"
  /\ observers' = EraseRemove(observers, o)
  /\ subscribed' = [subscribed EXCEPT ![o] = 0]
  /\ Returned("removeObserver", o)
  /\ UNCHANGED << heap, recipe, current, notifications, obs, strategies, service >>

\* Logger::Logger(), Logger::Logger(NotificationObservable*)
NewLogger(l) ==
  /\ Running /\ obs[l] = "none" /\ Len(observers) < MaxObservers
  /\ obs' = [obs EXCEPT ![l] = "alive"]
  /\ observers' = PushBack(observers, l)
  /\ subscribed' = [subscribed EXCEPT ![l] = @ + 1]
  /\ Returned("Logger", l)
  /\ UNCHANGED << heap, recipe, current, notifications, strategies, service >>

\* NotificationEngine::NotificationEngine()
NewEngine(e) ==
  /\ Running /\ obs[e] = "none" /\ Len(observers) < MaxObservers
  /\ obs' = [obs EXCEPT ![e] = "alive"]
  /\ observers' = PushBack(observers, e)
  /\ subscribed' = [subscribed EXCEPT ![e] = @ + 1]
  /\ Returned("NotificationEngine", e)
  /\ UNCHANGED << heap, recipe, current, notifications, strategies, service >>

\* NotificationEngine::NotificationEngine(NotificationObservable*): not registered
NewEngineWith(e) ==
  /\ Running /\ obs[e] = "none"
  /\ obs' = [obs EXCEPT ![e] = "alive"]
  /\ Returned("NotificationEngine(observable)", e)
  /\ UNCHANGED << heap, recipe, observers, current, notifications, strategies,
                  service, subscribed >>

AddNotificationStrategy(e, ch) ==
  /\ Running /\ obs[e] = "alive"
  /\ Len(strategies[e]) < MaxStrategies
  /\ ch \notin Range(strategies[e])
  /\ strategies' = [strategies EXCEPT ![e] = Append(@, ch)]
  /\ Returned("addNotificationStrategy", ch)
  /\ UNCHANGED << heap, recipe, observers, current, notifications, obs, service, subscribed >>

\* the public notifyObservers(), called without a publish
NotifyObservers ==
  /\ Running
  /\ \E crashAt \in CrashPoints(observers, heap, current),
        garbage \in GarbageChoices(heap, current) :
       LET r == NotifyFrom(observers, 1, heap, current, crashAt, garbage)
       IN /\ events' = r.events
          /\ ret' = r.ret
  /\ call' = << "notifyObservers", NULL >>
  /\ value' = << >>
  /\ ub' = RoundUB(observers, heap, current)
  /\ pre' = observers
  /\ UNCHANGED << heap, recipe, observers, current, notifications, obs, strategies,
                  service, subscribed >>

GetNotificationContent ==
  /\ Running
  /\ \E crash \in (IF Live(heap, current) THEN {FALSE} ELSE BOOLEAN),
        garbage \in GarbageChoices(heap, current) :
       /\ ret' = IF crash THEN "crashed" ELSE "returned"
       /\ value' = IF crash THEN << >> ELSE ReadContent(heap, current, garbage)
  /\ call' = << "getNotificationContent", NULL >>
  /\ ub' = ~Live(heap, current)
  /\ events' = << >>
  /\ pre' = observers
  /\ UNCHANGED << heap, recipe, observers, current, notifications, obs, strategies,
                  service, subscribed >>

\* NotificationService::sendNotification, with setNotification inlined
SendNotification(n) ==
  /\ Running /\ n \in Objs /\ Len(notifications) < MaxSends
  /\ call' = << "sendNotification", n >>
  /\ value' = << >>
  /\ notifications' = Append(notifications, n)
  /\ pre' = observers
  /\ LET dd == current # NULL /\ ~Live(heap, current)
         h1 == IF current # NULL THEN Delete(heap, current) ELSE heap
     IN \E crashDel \in (IF dd THEN BOOLEAN ELSE {FALSE}) :
          IF crashDel
          THEN /\ ret' = "crashed"
               /\ ub' = TRUE
               /\ events' = << >>
               /\ UNCHANGED << heap, current >>
          ELSE \E crashAt \in CrashPoints(observers, h1, n),
                  garbage \in GarbageChoices(h1, n) :
                 LET r == AssignAndNotify(h1, n, crashAt, garbage)
                 IN /\ heap' = h1
                    /\ current' = n
                    /\ events' = r.events
                    /\ ret' = r.ret
                    /\ ub' = (dd \/ RoundUB(observers, h1, n))
  /\ UNCHANGED << recipe, observers, obs, strategies, service, subscribed >>

\* delete logger; delete notificationEngine;  neither class has a destructor
\* that calls removeObserver
DeleteObserver(o) ==
  /\ Running /\ obs[o] = "alive"
  /\ obs' = [obs EXCEPT ![o] = "dead"]
  /\ Returned("delete", o)
  /\ UNCHANGED << heap, recipe, observers, current, notifications, strategies,
                  service, subscribed >>

\* ~NotificationService: delete observable, whose destructor deletes
\* currentNotification; the notifications vector drops its pointers
DeleteService ==
  /\ Running
  /\ service' = "destroyed"
  /\ events' = << >>
  /\ pre' = observers
  /\ heap' = IF current # NULL THEN Delete(heap, current) ELSE heap
  /\ call' = << "~NotificationService", NULL >>
  /\ value' = << >>
  /\ ub' = (current # NULL /\ ~Live(heap, current))
  /\ ret' \in (IF current # NULL /\ ~Live(heap, current)
               THEN {"returned", "crashed"} ELSE {"returned"})
  /\ UNCHANGED << recipe, observers, current, notifications, obs, strategies, subscribed >>

\* ------------------------------------------------------------ specifications
\* The registry and publishing: clients that keep their observers alive and
\* hand each notification over once; the engine has at most the Email strategy.
Next ==
  \/ NewSimple(MainMessage)
  \/ \E n \in Objs : Fresh(n) /\ NewTimestamp(n)
  \/ \E l \in Loggers : NewLogger(l)
  \/ \E e \in Engines : NewEngine(e)
  \/ \E e \in Engines : NewEngineWith(e)
  \/ \E o \in ObsIds : obs[o] = "alive" /\ AddObserver(o)
  \/ \E o \in ObsIds : obs[o] = "alive" /\ RemoveObserver(o)
  \/ \E e \in Engines : AddNotificationStrategy(e, "Email")
  \/ \E n \in Objs : Fresh(n) /\ SendNotification(n)
  \/ GetNotificationContent

Spec == Init /\ [][Next]_vars

\* The dispatch of main: one logger, the engine with the program's three
\* strategies in any order, decorated notifications, each sent once.
NextDispatch ==
  \/ \E m \in Messages : NewSimple(m)
  \/ \E n \in Objs : Fresh(n) /\ NewTimestamp(n)
  \/ \E n \in Objs : Fresh(n) /\ NewSignature(n, MainSignature)
  \/ NewLogger("logger")
  \/ \E e \in Engines : NewEngine(e)
  \/ \E e \in Engines, ch \in SourceChannels : AddNotificationStrategy(e, ch)
  \/ \E n \in Objs : Fresh(n) /\ SendNotification(n)
  \/ NotifyObservers

SpecDispatch == Init /\ [][NextDispatch]_vars

\* The content pipeline alone, over every base message and signature.
NextPipeline ==
  \/ \E m \in Messages : NewSimple(m)
  \/ \E n \in Objs : Fresh(n) /\ NewTimestamp(n)
  \/ \E n \in Objs, s \in Signatures : Fresh(n) /\ NewSignature(n, s)
  \/ \E n \in Objs : CallGetContent(n)

SpecPipeline == Init /\ [][NextPipeline]_vars

\* What main and other callers may also do: delete observers, send an object
\* that was sent or wrapped before, attach a throwing strategy, tear down.
NextLifetime ==
  \/ NewSimple(MainMessage)
  \/ \E n \in Objs : Fresh(n) /\ NewTimestamp(n)
  \/ NewLogger("logger")
  \/ \E e \in Engines : NewEngine(e)
  \/ \E o \in ObsIds : DeleteObserver(o)
  \/ \E e \in Engines, ch \in {"Email", "Faulty", "Popup"} : AddNotificationStrategy(e, ch)
  \/ \E n \in Objs : SendNotification(n)
  \/ DeleteService

SpecLifetime == Init /\ [][NextLifetime]_vars

\* ------------------------------------------------------------ properties
IsUpdate(e) == e[1] = "update"

\* the observers whose update the last operation invoked, in order
Updated(ev) ==
  LET u == SelectSeq(ev, IsUpdate) IN [i \in 1..Len(u) |-> u[i][2]]

Positions(v, x) == { i \in 1..Len(v) : v[i] = x }

Count(v, x) == Cardinality(Positions(v, x))

Without(v, s) == LET Keep(x) == x # s IN SelectSeq(v, Keep)

Published == call[1] = "sendNotification"

\* a decoration as a function on strings: prepend the timestamp, or append
\* the signature block
ApplyDecoration(d, s) ==
  IF d[1] = "timestamp" THEN << "[2025-10-26 10:45:00] " >> \o s
  ELSE s \o << "\n-- ", d[2], "\n\n" >>

\* build(b, [d1, ..., dk]) = dk(...d1(b))
RECURSIVE Build(_, _)
Build(b, ds) ==
  IF ds = << >> THEN b
  ELSE ApplyDecoration(ds[Len(ds)], Build(b, SubSeq(ds, 1, Len(ds) - 1)))

Expected(o) == Build(recipe[o].base, recipe[o].decos)

\* C1: a publish sets the current content to the object published, invokes
\* update once per registry entry in registry order, and returns normally
\* only after the last of them.
C1_PublishNotifiesInRegistryOrder ==
  Published =>
    /\ current = call[2]
    /\ ret = "returned"
    /\ Updated(events) = observers

C1_Witness ==
  /\ Published
  /\ Len(observers) = 3
  /\ Cardinality(Range(observers)) = 3
  /\ Len(events) >= 3

\* C2: every update invoked by publish(c) reads exactly c's content from the
\* publisher, with no undefined read, also when c replaces earlier content.
C2_ObserversReadPublishedContent ==
  Published =>
    /\ ~ub
    /\ \A i \in 1..Len(events) :
         events[i][3] = Expected(call[2]) /\ events[i][3] # GARBAGE

C2_Witness ==
  /\ Published
  /\ Len(notifications) = 2
  /\ Expected(notifications[1]) # Expected(notifications[2])
  /\ Len(events) >= 2

\* C3: removeObserver(s) leaves the registry without any occurrence of s, the
\* other entries in their previous order, and the content, heap, history,
\* strategies and observer objects untouched; it changes nothing when s is not
\* registered; a publish invokes no update of an observer that is unsubscribed.
C3_UnsubscribeRemovesEveryOccurrence ==
  [][ /\ (call'[1] = "removeObserver" =>
            /\ observers' = Without(observers, call'[2])
            /\ (Count(observers, call'[2]) = 0 => observers' = observers)
            /\ UNCHANGED << current, heap, notifications, strategies, obs >>)
      /\ (call'[1] = "sendNotification" =>
            \A o \in ObsIds :
              subscribed[o] = 0 => Count(Updated(events'), o) = 0) ]_vars

C3_Witness ==
  /\ call[1] = "removeObserver"
  /\ Count(pre, call[2]) = 2
  /\ Len(pre) = 3
  /\ Len(observers) = 1
  /\ current # NULL

\* C4: getNotificationContent() before any publish fails with an EmptyState
\* error.
C4_EmptyStateError ==
  (call[1] = "getNotificationContent" /\ current = NULL) => ret = "threw"

\* C5: with strategies [A, B, C] on a registered engine where B fails, a
\* publish still delivers to A and to C once per engine update, notifies every
\* registered observer, and ends normally.
Delivered(ch) ==
  Cardinality({ p \in 1..Len(events) :
                  events[p][1] = "deliver" /\ events[p][2] = ch })

C5_FailingChannelIsIsolated ==
  \A e \in Engines :
    ( /\ Published /\ ~ub
      /\ Count(observers, e) = 1
      /\ Len(strategies[e]) = 3
      /\ Throws(strategies[e][2]) ) =>
        /\ Delivered(strategies[e][1]) = 1
        /\ Delivered(strategies[e][3]) = 1
        /\ Updated(events) = observers
        /\ ret = "returned"

\* C6: an object built from base b by decorations d1, d2 has content
\* d2(d1(b)); every object's content, wrapped or not, is the build of its
\* recipe, and each getContent call returns it.
C6_DecorationsComposeInOrder ==
  /\ \A o \in Objs :
       /\ GetContent(o) = Expected(o)
       /\ Len(recipe[o].decos) = 2 =>
            GetContent(o) = ApplyDecoration(recipe[o].decos[2],
                              ApplyDecoration(recipe[o].decos[1], recipe[o].base))
  /\ call[1] = "getContent" => (ret = "returned" /\ value = Expected(call[2]))

C6_Witness ==
  /\ call[1] = "getContent"
  /\ recipe[call[2]].base = << "Hello" >>
  /\ recipe[call[2]].decos = << << "signature", "Team" >>,
                                << "signature", "Microsoft Dublin HR Team" >> >>
  /\ value = << "Hello", "\n-- ", "Team", "\n\n",
                "\n-- ", "Microsoft Dublin HR Team", "\n\n" >>

\* C7: an observer subscribed k times since its last unsubscribe is updated
\* exactly k times by a publish, at the positions of its registrations.
C7_DuplicateSubscriptionsNotify ==
  Published =>
    \A o \in ObsIds :
      /\ Count(Updated(events), o) = subscribed[o]
      /\ Positions(Updated(events), o) = Positions(observers, o)

C7_Witness ==
  /\ Published
  /\ \E o \in ObsIds : subscribed[o] = 2 /\ Count(Updated(events), o) = 2
  /\ Len(observers) = 3

\* C8: on each publish the engine's update is followed by one deliver per
\* strategy, in the order the strategies were added, all with the published
\* string, which the logger receives too; updates come in subscription order.
EngineBlock(e, c) ==
  [j \in 1..(Len(strategies[e]) + 1) |->
     IF j = 1 THEN << "update", e, c >> ELSE << "deliver", strategies[e][j - 1], c >>]

C8_EngineDeliversToEveryChannel ==
  Published =>
    LET c == Expected(call[2]) IN
    /\ Updated(events) = observers
    /\ \A p \in 1..Len(events) :
         /\ events[p][3] = c
         /\ (IsUpdate(events[p]) /\ events[p][2] \in Loggers) =>
              (p = Len(events) \/ IsUpdate(events[p + 1]))
         /\ (IsUpdate(events[p]) /\ events[p][2] \in Engines) =>
              LET k == Len(strategies[events[p][2]]) IN
              /\ p + k <= Len(events)
              /\ SubSeq(events, p, p + k) = EngineBlock(events[p][2], c)
              /\ (p + k = Len(events) \/ IsUpdate(events[p + k + 1]))

MainContent ==
  << "[2025-10-26 10:45:00] ", "Your internship confirmation has been approved!",
     "\n-- ", "Microsoft Dublin HR Team", "\n\n" >>

C8_Witness ==
  /\ Published
  /\ observers = << "logger", "engine" >>
  /\ strategies["engine"] = << "Email", "SMS", "Popup" >>
  /\ events = << << "update", "logger", MainContent >>,
                 << "update", "engine", MainContent >>,
                 << "deliver", "Email", MainContent >>,
                 << "deliver", "SMS", MainContent >>,
                 << "deliver", "Popup", MainContent >> >>

\* C9: every entry of the registry refers to an observer that is alive.
C9_RegistryHoldsLiveObservers ==
  \A i \in 1..Len(observers) : obs[observers[i]] = "alive"

\* C10: no notification object is destroyed twice or read after its
\* destruction; the current content and the history refer to live objects.
C10_NotificationsStayLive ==
  /\ \A o \in Objs : heap[o].dels <= 1
  /\ service = "up" => (current = NULL \/ Live(heap, current))
  /\ service = "up" => \A i \in 1..Len(notifications) : Live(heap, notifications[i])
  /\ Published => \A i \in 1..Len(events) : events[i][3] # GARBAGE

====
